---- MODULE Spec2Model ----
(***************************************************************************)
(* Candidate data pipeline of the CV scraper: fetch_cv_page,               *)
(* validate_candidate and deduplicate_candidates                           *)
(* (src/utils/scraper_utils.py), the ranker score_candidates with its two  *)
(* LLM adapters (src/utils/ai_utils.py), the writers                       *)
(* (src/utils/data_utils.py) and the run that joins them (src/main.py).    *)
(*                                                                         *)
(* Python values are modelled by kind: a dictionary key is "absent", or    *)
(* present with the value None ("null"), or present with a value.  Text    *)
(* that the code transforms (emails, names) is a sequence of characters.   *)
(***************************************************************************)
EXTENDS Integers, Sequences, FiniteSets, TLC

VARIABLES
    v_candidate,        \* validate_candidate: argument candidate
    v_required_fields,  \* validate_candidate: argument required_fields
    v_result,           \* validate_candidate: "none" before the call, then "true" / "false" / "raise"
    seen_identifiers,   \* main.py:53, the set shared by all dedup calls of a session
    all_candidates,     \* main.py:52, concatenation of the lists dedup returned
    d_candidates,       \* deduplicate_candidates: argument of the last call
    unique_candidates,  \* deduplicate_candidates: list returned by the last call
    seen_before,        \* seen_identifiers as it was when the last call started
    d_status,           \* "idle" / "returned" / "raised": how the last dedup call ended
    d_repeat,           \* the last call got the same input as the call before it, which had returned
    first_arrived,      \* history: for each dedup key, the first record the loop examined
    candidates,         \* score_candidates: the argument list; its records are updated in place
    job_description,    \* score_candidates: the argument job_description
    scored_candidates,  \* score_candidates: list of references (positions in candidates)
    r_i,                \* score_candidates: position of the for loop of line 233
    r_pc,               \* "idle" / "loop" / "await_classify" / "match" / "returned" / "raised"
    classification,     \* score_candidates: result of the last classify call
    jd_match,           \* score_candidates: result of the last match call
    c_outcome,          \* what the LLM call of the last classify call did
    m_outcome,          \* what the LLM call of the last match call did
    classify_calls,     \* LLM requests issued by classify_candidate_role
    match_calls,        \* LLM requests issued by match_candidate_to_jd
    in_flight,          \* collaborator calls (crawler fetch, LLM request) awaited and not yet resolved
    m_mode,             \* main: "default" / "url" / "usage" from sys.argv, "writers" for a direct writer call
    m_pc,               \* main: position of the run
    page_num,           \* scrape_github_profiles: loop variable of main.py:56
    page_candidates,    \* main.py:60, list returned by the last fetch_cv_page call
    has_more,           \* main.py:60, flag returned by the last fetch_cv_page call
    check_result,       \* check_page_exists: result of the arun of the last fetch_cv_page call
    extract_result,     \* fetch_cv_page: result of its own arun, if the last call made one
    files               \* output files written so far

dvars == <<seen_identifiers, all_candidates, d_candidates, unique_candidates,
           seen_before, d_status, d_repeat, first_arrived>>
vvars == <<v_candidate, v_required_fields, v_result>>
rvars == <<candidates, job_description, scored_candidates, r_i, r_pc,
           classification, jd_match, c_outcome, m_outcome, classify_calls, match_calls>>
mvars == <<m_mode, m_pc, page_num, page_candidates, has_more, check_result,
           extract_result, files>>
vars == <<vvars, dvars, rvars, in_flight, mvars>>

(***************************************************************************)
(* Bounds                                                                  *)
(***************************************************************************)
MaxRequired == 2    \* longest required_fields list
MaxDedupLen == 2    \* longest list handed to one dedup call
MaxBatch == 3       \* longest list handed to score_candidates
MaxPageLen == 2     \* longest list of records the crawler extracts from one page

(***************************************************************************)
(* Python values                                                           *)
(***************************************************************************)
\* a string-valued dictionary entry: missing key, None, or a string
FieldAbsent == [k |-> "absent", s |-> <<>>]
FieldNull == [k |-> "null", s |-> <<>>]
FieldStr(s) == [k |-> "str", s |-> s]

\* dict.get(key): None for a missing key, else the stored value
DictGet(field) == IF field.k = "absent" THEN FieldNull ELSE field

\* Python truthiness of a string-or-None value
TruthyStr(field) == field.k = "str" /\ Len(field.s) > 0

\* str.lower(), character by character
LowerChar(c) ==
    CASE c = "A" -> "a"
      [] c = "B" -> "b"
      [] c = "L" -> "l"
      [] OTHER -> c

Lower(s) == [j \in 1..Len(s) |-> LowerChar(s[j])]

\* a section of the record (personal_info, contact_info): missing key, None,
\* or a mapping holding the identifying field and possibly other keys
SectionAbsent == [k |-> "absent", id |-> FieldAbsent, other |-> FALSE]
SectionNull == [k |-> "null", id |-> FieldAbsent, other |-> FALSE]
SectionMap(field, other) == [k |-> "map", id |-> field, other |-> other]

\* truthiness of a section value: None and the empty mapping are falsy
TruthySection(sec) == sec.k = "map" /\ (sec.id.k # "absent" \/ sec.other)

\* the skills list: missing key, None, or a list of skill names
ListAbsent == [k |-> "absent", l |-> <<>>]
ListNull == [k |-> "null", l |-> <<>>]
ListOf(l) == [k |-> "list", l |-> l]
TruthyList(lst) == lst.k = "list" /\ Len(lst.l) > 0

\* a number-valued entry; numbers are decimal with one fractional digit and
\* stored as the count of tenths, so 0.8 is Dec(0, 8) and 80 is Dec(80, 0)
Dec(whole, tenth) == whole * 10 + tenth
NumAbsent == [k |-> "absent", n |-> 0]
NumNull == [k |-> "null", n |-> 0]
Num(n) == [k |-> "num", n |-> n]

\* a text-valued entry whose content the code only copies
TxtAbsent == [k |-> "absent", t |-> ""]
TxtNull == [k |-> "null", t |-> ""]
Txt(t) == [k |-> "str", t |-> t]
TruthyTxt(x) == x.k = "str" /\ x.t # ""

\* dict.get(key), dict.get(key, 0) and dict.get(key, []) on such entries
GetTxt(x) == IF x.k = "absent" THEN TxtNull ELSE x
GetNum(x) == IF x.k = "absent" THEN NumNull ELSE x
GetNumOr0(x) == IF x.k = "absent" THEN Num(0) ELSE x
GetListOrEmpty(x) == IF x.k = "absent" THEN ListOf(<<>>) ELSE x

\* "field in candidate"
HasField(candidate, field) ==
    CASE field = "personal_info" -> candidate.personal_info.k # "absent"
      [] field = "contact_info" -> candidate.contact_info.k # "absent"
      [] field = "skills" -> candidate.skills.k # "absent"
      [] OTHER -> FALSE

\* truthiness of candidate[field]
TruthyField(candidate, field) ==
    CASE field = "personal_info" -> TruthySection(candidate.personal_info)
      [] field = "contact_info" -> TruthySection(candidate.contact_info)
      [] field = "skills" -> TruthyList(candidate.skills)
      [] OTHER -> FALSE

(***************************************************************************)
(* Input domains                                                           *)
(***************************************************************************)
Em_a == <<"a", "@">>
Em_A == <<"A", "@">>
Nm_al == <<"a", "l">>
Nm_AL == <<"A", "L">>

FieldNames == {"personal_info", "contact_info", "skills"}

NameValues == {FieldAbsent, FieldNull, FieldStr(<<>>), FieldStr(Nm_AL)}
EmailValues == {FieldAbsent, FieldNull, FieldStr(<<>>), FieldStr(Em_A)}

Sections(values) ==
    {SectionAbsent, SectionNull}
        \cup {SectionMap(f, o) : f \in values, o \in BOOLEAN}

SkillValues == {ListAbsent, ListNull, ListOf(<<>>), ListOf(<<"Go">>)}

\* a record as the crawler delivers it: no AI field has been written yet
Cand(pi, ci, sk) ==
    [personal_info |-> pi, contact_info |-> ci, skills |-> sk,
     ai_matched_role |-> TxtAbsent, ai_confidence_score |-> NumAbsent,
     ai_seniority |-> TxtAbsent, ai_reasoning |-> TxtAbsent,
     ai_key_skills |-> ListAbsent, ai_jd_match_score |-> NumAbsent,
     ai_matched_skills |-> ListAbsent, ai_missing_skills |-> ListAbsent,
     ai_recommendation |-> TxtAbsent, ai_jd_reasoning |-> TxtAbsent]

\* every record shape the validator distinguishes
Records ==
    {Cand(pi, ci, sk) : pi \in Sections(NameValues), ci \in Sections(EmailValues),
                        sk \in SkillValues}

SeqsUpTo(S, n) == UNION {[1..m -> S] : m \in 0..n}

RequiredLists == SeqsUpTo(FieldNames, MaxRequired)

(***************************************************************************)
(* validate_candidate                                                      *)
(***************************************************************************)
\* the loop over required_fields: TRUE when some required field is missing or falsy
RECURSIVE RequiredFails(_, _, _)
RequiredFails(candidate, required_fields, j) ==
    IF j > Len(required_fields) THEN FALSE
    ELSE IF ~HasField(candidate, required_fields[j])
            \/ ~TruthyField(candidate, required_fields[j]) THEN TRUE
    ELSE RequiredFails(candidate, required_fields, j + 1)

\* "true" / "false", or "raise" where the code calls .get on None
validate_candidate(candidate, required_fields) ==
    IF RequiredFails(candidate, required_fields, 1) THEN "false"
    ELSE IF candidate.personal_info.k = "null" THEN "raise"
    ELSE IF candidate.contact_info.k = "null" THEN "raise"
    ELSE IF \/ /\ candidate.personal_info.k = "map"
               /\ TruthyStr(DictGet(candidate.personal_info.id))
            \/ /\ candidate.contact_info.k = "map"
               /\ TruthyStr(DictGet(candidate.contact_info.id))
        THEN "true"
    ELSE "false"

(***************************************************************************)
(* deduplicate_candidates                                                  *)
(***************************************************************************)
IdNone == [k |-> "none", s |-> <<>>]
IdRaise == [k |-> "raise", s |-> <<>>]
IdStr(s) == [k |-> "str", s |-> s]

Identifier_NoLower(candidate) ==
    IF candidate.contact_info.k = "null" THEN IdRaise
    ELSE IF candidate.contact_info.k = "map"
            /\ TruthyStr(DictGet(candidate.contact_info.id))
        THEN IdStr(candidate.contact_info.id.s)
    ELSE IF candidate.personal_info.k = "null" THEN IdRaise
    ELSE IF candidate.personal_info.k = "map"
            /\ TruthyStr(DictGet(candidate.personal_info.id))
        THEN IdStr(candidate.personal_info.id.s)
    ELSE IdNone

\* lines 244-251: the identifier of one record; "raise" where .get is called on None
Identifier(candidate) ==
    IF candidate.contact_info.k = "null" THEN IdRaise
    ELSE IF candidate.contact_info.k = "map"
            /\ TruthyStr(DictGet(candidate.contact_info.id))
        THEN IdStr(Lower(candidate.contact_info.id.s))
    ELSE IF candidate.personal_info.k = "null" THEN IdRaise
    ELSE IF candidate.personal_info.k = "map"
            /\ TruthyStr(DictGet(candidate.personal_info.id))
        THEN IdStr(Lower(candidate.personal_info.id.s))
    ELSE IdNone

DedupStep_NoAdd(acc, candidate) ==
    LET identifier == Identifier(candidate) IN
    IF identifier.k = "raise" THEN [acc EXCEPT !.raised = TRUE]
    ELSE IF identifier.k = "str" /\ identifier.s \notin acc.seen
        THEN [acc EXCEPT !.unique = Append(@, candidate)]
    ELSE acc

DedupStep_Prepend(acc, candidate) ==
    LET identifier == Identifier(candidate) IN
    IF identifier.k = "raise" THEN [acc EXCEPT !.raised = TRUE]
    ELSE IF identifier.k = "str" /\ identifier.s \notin acc.seen
        THEN [acc EXCEPT !.seen = @ \cup {identifier.s},
                         !.unique = <<candidate>> \o @]
    ELSE acc

\* lines 242-257: one iteration of the loop on the accumulated (unique, seen)
DedupStep(acc, candidate) ==
    LET identifier == Identifier(candidate) IN
    IF identifier.k = "raise" THEN [acc EXCEPT !.raised = TRUE]
    ELSE IF identifier.k = "str" /\ identifier.s \notin acc.seen
        THEN [acc EXCEPT !.seen = @ \cup {identifier.s},
                         !.unique = Append(@, candidate)]
    ELSE acc

RECURSIVE DedupLoop(_, _, _)
DedupLoop(batch, j, acc) ==
    IF j > Len(batch) \/ acc.raised THEN acc
    ELSE DedupLoop(batch, j + 1,
                   [DedupStep(acc, batch[j]) EXCEPT !.examined = j])

\* the call: the list returned, the set as the call leaves it, whether it
\* raised, and how many records the loop examined
deduplicate_candidates(batch, seen) ==
    DedupLoop(batch, 1,
              [unique |-> <<>>, seen |-> seen, raised |-> FALSE, examined |-> 0])

(***************************************************************************)
(* The LLM collaborator and the two adapters                               *)
(***************************************************************************)
\* the object classify_candidate_role returns; obj is FALSE when the model's
\* JSON content is not an object (a list, a number, null)
ClassResult(obj, role, conf, level, reasoning, skills) ==
    [obj |-> obj, matched_role |-> role, confidence_score |-> conf,
     seniority_level |-> level, reasoning |-> reasoning, key_skills |-> skills]

NoResult == ClassResult(FALSE, TxtAbsent, NumAbsent, TxtAbsent, TxtAbsent, ListAbsent)

\* the object match_candidate_to_jd returns
MatchResult(obj, score, matched, missing, strengths, concerns, rec, reasoning) ==
    [obj |-> obj, match_score |-> score, matched_skills |-> matched,
     missing_skills |-> missing, strengths |-> strengths, concerns |-> concerns,
     recommendation |-> rec, reasoning |-> reasoning]

NoMatch ==
    MatchResult(FALSE, NumAbsent, ListAbsent, ListAbsent, ListAbsent, ListAbsent,
                TxtAbsent, TxtAbsent)

\* str(e) of a caught exception: text the code copies without reading it
ErrText == "str(e)"

\* what one HTTP request to the LLM can do: answer 200 with JSON content
\* ("ok"), answer another status ("status"), raise ("exception"), or answer
\* 200 with text that is not JSON ("malformed")
Outcome(kind, body) == [kind |-> kind, body |-> body]

ClassifyBodies ==
    {ClassResult(TRUE, Txt("Backend Developer"), Num(Dec(0, 8)), Txt("Senior"),
                 Txt("fits"), ListOf(<<"Go">>)),
     ClassResult(TRUE, TxtAbsent, NumNull, TxtAbsent, TxtAbsent, ListAbsent),
     ClassResult(TRUE, TxtAbsent, NumAbsent, TxtAbsent, TxtAbsent, ListAbsent),
     NoResult}

ClassifyOutcomes ==
    {Outcome("ok", b) : b \in ClassifyBodies}
        \cup {Outcome(kind, NoResult) : kind \in {"status", "exception", "malformed"}}

MatchBodies ==
    {MatchResult(TRUE, Num(Dec(50, 0)), ListOf(<<"Go">>), ListOf(<<>>), ListOf(<<"Go">>),
                 ListOf(<<>>), Txt("yes"), Txt("good")),
     MatchResult(TRUE, Num(Dec(80, 0)), ListOf(<<"Go">>), ListOf(<<>>), ListOf(<<"Go">>),
                 ListOf(<<>>), Txt("strong_yes"), Txt("good")),
     MatchResult(TRUE, NumNull, ListAbsent, ListAbsent, ListAbsent, ListAbsent,
                 TxtAbsent, TxtAbsent),
     MatchResult(TRUE, NumAbsent, ListAbsent, ListAbsent, ListAbsent, ListAbsent,
                 TxtAbsent, TxtAbsent),
     NoMatch}

MatchOutcomes ==
    {Outcome("ok", b) : b \in MatchBodies}
        \cup {Outcome(kind, NoMatch) : kind \in {"status", "exception", "malformed"}}

\* lines 30-41 and 132-145: building the prompt calls .get on personal_info
\* and iterates over skills, outside of the try block
PromptRaises(candidate_data) ==
    candidate_data.personal_info.k = "null" \/ candidate_data.skills.k = "null"

ClassifyFallback_KeepsRole(reasoning) ==
    ClassResult(TRUE, Txt("Backend Developer"), Num(Dec(0, 0)), Txt("Unknown"),
                Txt(reasoning), ListOf(<<>>))

\* lines 93-99 and 103-109
ClassifyFallback(reasoning) ==
    ClassResult(TRUE, Txt("Other"), Num(Dec(0, 0)), Txt("Unknown"), Txt(reasoning),
                ListOf(<<>>))

\* lines 63-109: raised is TRUE when the exception leaves the function
classify_candidate_role(candidate_data, outcome) ==
    IF PromptRaises(candidate_data) THEN [raised |-> TRUE, value |-> NoResult]
    ELSE [raised |-> FALSE,
          value |-> CASE outcome.kind = "ok" -> outcome.body
                      [] outcome.kind = "status" -> ClassifyFallback("Classification failed")
                      [] OTHER -> ClassifyFallback(ErrText)]

MatchFallback_Maybe(concern, reasoning) ==
    MatchResult(TRUE, Num(Dec(0, 0)), ListOf(<<>>), ListOf(<<>>), ListOf(<<>>),
                ListOf(<<concern>>), Txt("maybe"), Txt(reasoning))

\* lines 195-203 and 207-215
MatchFallback(concern, reasoning) ==
    MatchResult(TRUE, Num(Dec(0, 0)), ListOf(<<>>), ListOf(<<>>), ListOf(<<>>),
                ListOf(<<concern>>), Txt("no"), Txt(reasoning))

\* lines 166-215
match_candidate_to_jd(candidate_data, outcome) ==
    IF PromptRaises(candidate_data) THEN [raised |-> TRUE, value |-> NoMatch]
    ELSE [raised |-> FALSE,
          value |-> CASE outcome.kind = "ok" -> outcome.body
                      [] outcome.kind = "status" ->
                            MatchFallback("Analysis failed", "Unable to perform analysis")
                      [] OTHER -> MatchFallback(ErrText, ErrText)]

(***************************************************************************)
(* score_candidates                                                        *)
(***************************************************************************)
MergeClassification_KeepsPrior(candidate, cls) ==
    [candidate EXCEPT !.ai_matched_role =
                          IF @.k = "absent" THEN GetTxt(cls.matched_role) ELSE @,
                      !.ai_confidence_score = GetNum(cls.confidence_score),
                      !.ai_seniority = GetTxt(cls.seniority_level),
                      !.ai_reasoning = GetTxt(cls.reasoning),
                      !.ai_key_skills = GetListOrEmpty(cls.key_skills)]

\* lines 240-244
MergeClassification(candidate, cls) ==
    [candidate EXCEPT !.ai_matched_role = GetTxt(cls.matched_role),
                      !.ai_confidence_score = GetNum(cls.confidence_score),
                      !.ai_seniority = GetTxt(cls.seniority_level),
                      !.ai_reasoning = GetTxt(cls.reasoning),
                      !.ai_key_skills = GetListOrEmpty(cls.key_skills)]

\* lines 249-253
MergeMatch(candidate, jm) ==
    [candidate EXCEPT !.ai_jd_match_score = GetNum(jm.match_score),
                      !.ai_matched_skills = GetListOrEmpty(jm.matched_skills),
                      !.ai_missing_skills = GetListOrEmpty(jm.missing_skills),
                      !.ai_recommendation = GetTxt(jm.recommendation),
                      !.ai_jd_reasoning = GetTxt(jm.reasoning)]

\* lines 256-258: classification.get("confidence_score", 0) * 100; the
\* product of None and 100 raises ("null")
DefaultScore(cls) ==
    LET conf == GetNumOr0(cls.confidence_score) IN
    IF conf.k = "num" THEN Num(conf.n * 100) ELSE NumNull

\* line 263: the sort key x.get("ai_jd_match_score", 0)
SortKey(candidate) == GetNumOr0(candidate.ai_jd_match_score)

Reverse(s) == [j \in 1..Len(s) |-> s[Len(s) + 1 - j]]

\* insertion of x into an ascending list, to the right of equal keys
RECURSIVE InsertSorted(_, _, _)
InsertSorted(cands, sorted, x) ==
    IF sorted = <<>> THEN <<x>>
    ELSE IF SortKey(cands[x]).n < SortKey(cands[Head(sorted)]).n THEN <<x>> \o sorted
    ELSE <<Head(sorted)>> \o InsertSorted(cands, Tail(sorted), x)

RECURSIVE SortAscending(_, _)
SortAscending(cands, refs) ==
    IF refs = <<>> THEN <<>>
    ELSE InsertSorted(cands, SortAscending(cands, SubSeq(refs, 1, Len(refs) - 1)),
                      refs[Len(refs)])

SortDescending_TiesReversed(cands, refs) == Reverse(SortAscending(cands, refs))

SortDescending_LosesLast(cands, refs) ==
    IF refs = <<>> THEN <<>>
    ELSE Reverse(SortAscending(cands, Tail(Reverse(refs))))

\* list.sort(key=..., reverse=True): the list is reversed, sorted ascending
\* by a stable sort, and reversed again
SortDescending(cands, refs) == Reverse(SortAscending(cands, Reverse(refs)))

\* comparing None with a number or with None raises TypeError; a list of
\* two or more elements compares every element at least once
SortRaises(cands, refs) ==
    Len(refs) >= 2 /\ \E j \in DOMAIN refs : SortKey(cands[refs[j]]).k = "null"

\* the extraction schema carries ai_matched_role, ai_confidence_score and
\* ai_jd_match_score (models/candidate.py:94-96), so a record can arrive
\* with values in them
R_ok ==
    [Cand(SectionMap(FieldStr(Nm_al), FALSE), SectionMap(FieldStr(Em_a), FALSE),
          ListOf(<<"Go">>))
        EXCEPT !.ai_matched_role = Txt("Intern"),
               !.ai_confidence_score = Num(Dec(0, 3)),
               !.ai_jd_match_score = Num(Dec(99, 0))]
R_nullskills == Cand(SectionMap(FieldStr(Nm_al), FALSE), SectionMap(FieldStr(Em_a), FALSE), ListNull)

RankPool == {R_ok, R_nullskills}
RankInputs == SeqsUpTo(RankPool, MaxBatch)
JobDescriptions == {TxtNull, Txt(""), Txt("JD")}

\* an awaited collaborator call: the caller is suspended from the moment the
\* call is issued until it resolves (ai_utils.py:238 and 247, main.py:60,
\* scraper_utils.py:116 and 167)
Issue(n) == n + 1

Complete_NotAwaited(n) == n

Complete(n) == n - 1

\* lines 233-238 for the record at r_i, up to the request of
\* classify_candidate_role (ai_utils.py:65): line 235 and the prompt are
\* evaluated first and may raise before any request is made
IssueClassify ==
    /\ r_pc = "loop"
    /\ r_i <= Len(candidates)
    /\ IF candidates[r_i].personal_info.k = "null" \/ PromptRaises(candidates[r_i])
       THEN /\ r_pc' = "raised"
            /\ UNCHANGED <<classify_calls, in_flight>>
       ELSE /\ r_pc' = "await_classify"
            /\ classify_calls' = classify_calls + 1
            /\ in_flight' = Issue(in_flight)
    /\ UNCHANGED <<candidates, job_description, scored_candidates, r_i, classification,
                   jd_match, c_outcome, m_outcome, match_calls, vvars, dvars, mvars>>

\* lines 238-258 for the record at r_i: the classify request resolves and
\* its result is merged; with a job description the match request is issued
\* (ai_utils.py:168), without one the default score is set and the record
\* appended (line 260)
Classify(outcome) ==
    /\ r_pc = "await_classify"
    /\ LET candidate == candidates[r_i]
           res == classify_candidate_role(candidate, outcome)
           cls == res.value
           merged == MergeClassification(candidate, cls)
           score == DefaultScore(cls)
       IN
       /\ classification' = cls
       /\ c_outcome' = outcome.kind
       /\ IF ~cls.obj
          THEN /\ r_pc' = "raised"
               /\ in_flight' = Complete(in_flight)
               /\ UNCHANGED <<candidates, scored_candidates, r_i, match_calls>>
          ELSE IF TruthyTxt(job_description)
          THEN /\ candidates' = [candidates EXCEPT ![r_i] = merged]
               /\ r_pc' = "match"
               /\ match_calls' = match_calls + 1
               /\ in_flight' = Issue(Complete(in_flight))
               /\ UNCHANGED <<scored_candidates, r_i>>
          ELSE IF score.k = "null"
          THEN /\ candidates' = [candidates EXCEPT ![r_i] = merged]
               /\ r_pc' = "raised"
               /\ in_flight' = Complete(in_flight)
               /\ UNCHANGED <<scored_candidates, r_i, match_calls>>
          ELSE /\ candidates' =
                     [candidates EXCEPT ![r_i] =
                         [merged EXCEPT !.ai_jd_match_score = score]]
               /\ scored_candidates' = Append(scored_candidates, r_i)
               /\ r_i' = r_i + 1
               /\ r_pc' = "loop"
               /\ in_flight' = Complete(in_flight)
               /\ UNCHANGED match_calls
    /\ UNCHANGED <<job_description, jd_match, m_outcome, classify_calls, vvars, dvars, mvars>>

\* lines 247-260 for the record at r_i: the match request resolves, its
\* result is merged and the record appended
Match(outcome) ==
    /\ r_pc = "match"
    /\ LET candidate == candidates[r_i]
           res == match_candidate_to_jd(candidate, outcome)
           jm == res.value
       IN
       /\ jd_match' = jm
       /\ m_outcome' = outcome.kind
       /\ in_flight' = Complete(in_flight)
       /\ IF ~jm.obj
          THEN /\ r_pc' = "raised"
               /\ UNCHANGED <<candidates, scored_candidates, r_i>>
          ELSE /\ candidates' = [candidates EXCEPT ![r_i] = MergeMatch(candidate, jm)]
               /\ scored_candidates' = Append(scored_candidates, r_i)
               /\ r_i' = r_i + 1
               /\ r_pc' = "loop"
    /\ UNCHANGED <<job_description, classification, c_outcome, classify_calls,
                   match_calls, vvars, dvars, mvars>>

\* lines 262-265: the sort, and the return of the sorted list
SortAndReturn ==
    /\ r_pc = "loop"
    /\ r_i > Len(candidates)
    /\ IF SortRaises(candidates, scored_candidates)
       THEN /\ r_pc' = "raised"
            /\ UNCHANGED scored_candidates
       ELSE /\ r_pc' = "returned"
            /\ scored_candidates' = SortDescending(candidates, scored_candidates)
    /\ UNCHANGED <<candidates, job_description, r_i, classification, jd_match,
                   c_outcome, m_outcome, classify_calls, match_calls, vvars, dvars,
                   in_flight, mvars>>

(***************************************************************************)
(* Dedup session: the calls of main.py:77-80 on one shared set             *)
(***************************************************************************)
D_a == Cand(SectionMap(FieldStr(Nm_al), FALSE), SectionMap(FieldStr(Em_a), FALSE), ListAbsent)
D_A == Cand(SectionNull, SectionMap(FieldStr(Em_A), FALSE), ListAbsent)
D_al == Cand(SectionMap(FieldStr(Nm_al), FALSE), SectionMap(FieldStr(<<>>), TRUE), ListAbsent)
D_AL == Cand(SectionMap(FieldStr(Nm_AL), FALSE), SectionMap(FieldNull, TRUE), ListAbsent)
D_noid == Cand(SectionMap(FieldStr(<<>>), FALSE), SectionAbsent, ListAbsent)
D_null == Cand(SectionMap(FieldStr(Nm_al), FALSE), SectionNull, ListAbsent)

\* two spellings of one email (the second with personal_info None, which
\* the code never reads), two spellings of one name, a record with no
\* identifier, and a record whose contact_info is None
DedupPool == {D_a, D_A, D_al, D_AL, D_noid, D_null}

DedupInputs == SeqsUpTo(DedupPool, MaxDedupLen)

\* the dedup key as the data model states it: lowercased email if present
\* and non-empty, else lowercased full name, else none (the empty text)
HasEmail(c) == c.contact_info.k = "map" /\ TruthyStr(c.contact_info.id)
HasName(c) == c.personal_info.k = "map" /\ TruthyStr(c.personal_info.id)
DedupKey(c) ==
    IF HasEmail(c) THEN Lower(c.contact_info.id.s)
    ELSE IF HasName(c) THEN Lower(c.personal_info.id.s)
    ELSE <<>>
HasKey(c) == HasEmail(c) \/ HasName(c)

\* history: remember, per key, the first record that arrived
RECURSIVE NoteArrivals(_, _, _)
NoteArrivals(first, batch, j) ==
    IF j > Len(batch) THEN first
    ELSE LET c == batch[j]
             known == \E e \in first : e.key = DedupKey(c)
         IN NoteArrivals(IF HasKey(c) /\ ~known
                             THEN first \cup {[key |-> DedupKey(c), rec |-> c]}
                             ELSE first,
                         batch, j + 1)

vInit ==
    /\ v_candidate = D_noid
    /\ v_required_fields = <<>>
    /\ v_result = "none"

rInit ==
    /\ candidates = <<>>
    /\ job_description = TxtNull
    /\ scored_candidates = <<>>
    /\ r_i = 1
    /\ r_pc = "idle"
    /\ classification = NoResult
    /\ jd_match = NoMatch
    /\ c_outcome = "none"
    /\ m_outcome = "none"
    /\ classify_calls = 0
    /\ match_calls = 0

\* no arun has returned yet
NoCrawl == [success |-> FALSE, cleaned_html |-> [k |-> "none", t |-> <<>>],
            extracted_content |-> [k |-> "none", list |-> <<>>]]

\* no run of main is in progress
mInit ==
    /\ in_flight = 0
    /\ m_mode = "none"
    /\ m_pc = "idle"
    /\ page_num = 0
    /\ page_candidates = <<>>
    /\ has_more = FALSE
    /\ check_result = NoCrawl
    /\ extract_result = NoCrawl
    /\ files = {}

dInit ==
    /\ seen_identifiers = {}
    /\ all_candidates = <<>>
    /\ d_candidates = <<>>
    /\ unique_candidates = <<>>
    /\ seen_before = {}
    /\ d_status = "idle"
    /\ d_repeat = FALSE
    /\ first_arrived = {}

\* main.py:77-80: unique = deduplicate_candidates(batch, seen); all.extend(unique).
\* An exception leaves the loop of main.py:56 and ends the session.
Dedup(batch) ==
    /\ d_status # "raised"
    /\ \E r \in {deduplicate_candidates(batch, seen_identifiers)} :
        /\ seen_identifiers' = r.seen
        /\ d_status' = IF r.raised THEN "raised" ELSE "returned"
        /\ unique_candidates' = IF r.raised THEN <<>> ELSE r.unique
        /\ all_candidates' = IF r.raised THEN all_candidates
                             ELSE all_candidates \o r.unique
        /\ first_arrived' = IF r.raised THEN first_arrived
                            ELSE NoteArrivals(first_arrived, batch, 1)
    /\ d_candidates' = batch
    /\ seen_before' = seen_identifiers
    /\ d_repeat' = (d_status = "returned" /\ batch = d_candidates)
    /\ UNCHANGED <<vvars, rvars, in_flight, mvars>>

InitDedup == vInit /\ dInit /\ rInit /\ mInit
NextDedup == \E batch \in DedupInputs : Dedup(batch)
SpecDedup == InitDedup /\ [][NextDedup]_vars

(***************************************************************************)
(* validate_candidate applied to every record shape                        *)
(***************************************************************************)
InitValidate ==
    /\ v_candidate \in Records
    /\ v_required_fields \in RequiredLists
    /\ v_result = "none"
    /\ dInit
    /\ rInit
    /\ mInit

Validate ==
    /\ v_result = "none"
    /\ v_result' = validate_candidate(v_candidate, v_required_fields)
    /\ UNCHANGED <<v_candidate, v_required_fields, dvars, rvars, in_flight, mvars>>

NextValidate == Validate
SpecValidate == InitValidate /\ [][NextValidate]_vars

(***************************************************************************)
(* fetch_cv_page and the crawler results it reads                          *)
(***************************************************************************)
\* text of a page as a sequence of pieces; a substring test compares pieces
HtmlNone == [k |-> "null", t |-> <<>>]
Html(t) == [k |-> "str", t |-> t]

\* scraper_utils.py:125-130
no_results_indicators ==
    {<<"No", " ", "Results", " ", "Found">>,
     <<"No", " ", "candidates", " ", "found">>,
     <<"No", " ", "profiles", " ", "available">>,
     <<"0", " ", "results">>}

\* Python's "needle in haystack" on strings
InStr(needle, hay) ==
    \E j \in 1..(Len(hay) - Len(needle) + 1) :
        SubSeq(hay, j, j + Len(needle) - 1) = needle

\* what crawler.arun hands back: the fields the code reads
CrawlResult(success, cleaned_html, extracted_content) ==
    [success |-> success, cleaned_html |-> cleaned_html,
     extracted_content |-> extracted_content]

\* extracted_content: None, the empty string, text that json.loads rejects,
\* or the JSON text of a list of records
ContentNone == [k |-> "null", list |-> <<>>]
ContentEmpty == [k |-> "empty", list |-> <<>>]
ContentMalformed == [k |-> "malformed", list |-> <<>>]
ContentJson(list) == [k |-> "json", list |-> list]
TruthyContent(c) == c.k \in {"malformed", "json"}

\* json.loads: raised stands for JSONDecodeError
json_loads(c) ==
    IF c.k = "json" THEN [raised |-> FALSE, value |-> c.list]
    ELSE [raised |-> TRUE, value |-> <<>>]

PageTexts ==
    {HtmlNone, Html(<<>>),
     Html(<<"Profiles">>),
     Html(<<"1", "0", " ", "results">>),
     Html(<<"no", " ", "results", " ", "found">>),
     Html(<<"Sorry", ".", "No", " ", "Results", " ", "Found">>),
     Html(<<"No", " ", "candidates", " ", "found">>),
     Html(<<"No", " ", "profiles", " ", "available">>)}

\* results of the first arun (no extraction strategy attached)
CheckResults == {CrawlResult(s, h, ContentNone) : s \in BOOLEAN, h \in PageTexts}

P_a == Cand(SectionMap(FieldStr(Nm_al), FALSE), SectionMap(FieldStr(Em_a), FALSE), ListOf(<<"Go">>))
P_al == Cand(SectionMap(FieldStr(Nm_al), FALSE), SectionMap(FieldAbsent, TRUE), ListOf(<<"Go">>))

\* a valid record with an email, a valid record with a name only, a record
\* without contact_info and one whose contact_info is None; a page may list
\* a record more than once
PagePool == {P_a, P_al, D_noid, D_null}
PageLists == SeqsUpTo(PagePool, MaxPageLen)

\* results of the second arun (extraction strategy attached)
ExtractResults ==
    {CrawlResult(TRUE, Html(<<"Profiles">>), c) :
        c \in {ContentNone, ContentEmpty, ContentMalformed}
                 \cup {ContentJson(l) : l \in PageLists}}
        \cup {CrawlResult(FALSE, Html(<<"Profiles">>), c) :
                 c \in {ContentNone, ContentJson(<<P_a>>)}}

check_page_exists_IgnoresMarkers(result) ==
    result.success /\ result.cleaned_html.k = "str" /\ result.cleaned_html.t # <<>>

\* scraper_utils.py:123-136, applied to the result of the arun of line 116
check_page_exists(result) ==
    IF result.success /\ result.cleaned_html.k = "str" /\ result.cleaned_html.t # <<>>
    THEN ~\E indicator \in no_results_indicators :
              InStr(indicator, result.cleaned_html.t)
    ELSE FALSE

\* the tuple fetch_cv_page returns
FetchReturn(records, more) == [records |-> records, has_more |-> more]

\* scraper_utils.py:178-196, applied to the result of the arun of line 167
fetch_cv_page(result) ==
    IF ~(result.success /\ TruthyContent(result.extracted_content))
    THEN FetchReturn(<<>>, FALSE)
    ELSE LET parsed == json_loads(result.extracted_content) IN
         IF parsed.raised THEN FetchReturn(<<>>, FALSE)
         ELSE IF parsed.value = <<>> THEN FetchReturn(<<>>, FALSE)
         ELSE FetchReturn(parsed.value, TRUE)

(***************************************************************************)
(* The writers                                                             *)
(***************************************************************************)
\* config.py:78-79
OUTPUT_CSV_FILE == "candidates_cv_data.csv"
OUTPUT_JSON_FILE == "candidates_cv_data.json"

\* data_utils.py:20-44: .get on a section that is None, iteration over
\* skills that is None
FlattenRaises(candidate) ==
    \/ candidate.personal_info.k = "null"
    \/ candidate.contact_info.k = "null"
    \/ candidate.skills.k = "null"

WritesFile_Always(list) == TRUE

\* data_utils.py:106-108 and 135-137: an empty list is reported and nothing
\* is opened
WritesFile(list) == list # <<>>

(***************************************************************************)
(* main: scrape, rank, save                                                *)
(***************************************************************************)
\* main.py:148
max_pages == 3

\* config.py:32-35
REQUIRED_CV_FIELDS == <<"personal_info", "contact_info">>

\* main.py:73-75 and 117-119: the list comprehension over validate_candidate
RECURSIVE FilterValid(_, _, _)
FilterValid(list, j, acc) ==
    IF j > Len(list) THEN acc
    ELSE LET ok == validate_candidate(list[j], REQUIRED_CV_FIELDS) IN
         IF ok = "raise" THEN [acc EXCEPT !.raised = TRUE]
         ELSE IF ok = "true"
             THEN FilterValid(list, j + 1, [acc EXCEPT !.valid = Append(@, list[j])])
         ELSE FilterValid(list, j + 1, acc)

valid_candidates(list) == FilterValid(list, 1, [valid |-> <<>>, raised |-> FALSE])

\* main.py:137-148: the branch on sys.argv; the first fetch of either scrape
\* is issued, or the usage message is printed and the run ends
Start ==
    /\ m_pc = "start"
    /\ IF m_mode = "usage"
       THEN /\ m_pc' = "stopped"
            /\ UNCHANGED <<page_num, in_flight>>
       ELSE /\ m_pc' = "check"
            /\ page_num' = 1
            /\ in_flight' = Issue(in_flight)
    /\ UNCHANGED <<m_mode, page_candidates, has_more, check_result, extract_result,
                   files, vvars, dvars, rvars>>

PageEnds_Never(ret) == FALSE

\* main.py:68: if not has_more or not candidates
PageEnds(ret) == ~ret.has_more \/ ret.records = <<>>

\* what the scrape does with the tuple fetch_cv_page returned, with flight
\* the calls outstanding once that fetch has resolved: main.py:68-87 in the
\* paginated scrape, main.py:116-125 in the scrape of one url
AfterFetch(ret, flight) ==
    /\ page_candidates' = ret.records
    /\ has_more' = ret.has_more
    /\ \E v \in {valid_candidates(ret.records)} :
        IF m_mode = "url"
        THEN /\ IF v.raised
                THEN m_pc' = "raised" /\ UNCHANGED candidates
                ELSE m_pc' = "scraped" /\ candidates' = v.valid
             /\ in_flight' = flight
             /\ UNCHANGED <<page_num, seen_identifiers, all_candidates>>
        ELSE IF PageEnds(ret)
        THEN /\ m_pc' = "scraped"
             /\ candidates' = all_candidates
             /\ in_flight' = flight
             /\ UNCHANGED <<page_num, seen_identifiers, all_candidates>>
        ELSE IF v.raised
        THEN /\ m_pc' = "raised"
             /\ in_flight' = flight
             /\ UNCHANGED <<page_num, seen_identifiers, all_candidates, candidates>>
        ELSE \E r \in {deduplicate_candidates(v.valid, seen_identifiers)} :
             IF r.raised
             THEN /\ m_pc' = "raised"
                  /\ seen_identifiers' = r.seen
                  /\ in_flight' = flight
                  /\ UNCHANGED <<page_num, all_candidates, candidates>>
             ELSE /\ seen_identifiers' = r.seen
                  /\ all_candidates' = all_candidates \o r.unique
                  /\ IF page_num < max_pages
                     THEN /\ page_num' = page_num + 1
                          /\ m_pc' = "check"
                          /\ in_flight' = Issue(flight)
                          /\ UNCHANGED candidates
                     ELSE /\ m_pc' = "scraped"
                          /\ candidates' = all_candidates \o r.unique
                          /\ in_flight' = flight
                          /\ UNCHANGED page_num
    /\ UNCHANGED <<m_mode, files, vvars, d_candidates, unique_candidates, seen_before,
                   d_status, d_repeat, first_arrived, job_description,
                   scored_candidates, r_i, r_pc, classification, jd_match, c_outcome,
                   m_outcome, classify_calls, match_calls>>

\* scraper_utils.py:116-136 and 163-176: the first arun resolves; a page
\* that does not exist ends fetch_cv_page, else the second arun is issued
CheckPage(result) ==
    /\ m_pc = "check"
    /\ check_result' = result
    /\ extract_result' = NoCrawl
    /\ IF check_page_exists(result)
       THEN /\ m_pc' = "extract"
            /\ in_flight' = Issue(Complete(in_flight))
            /\ UNCHANGED <<m_mode, page_num, page_candidates, has_more, files, vvars,
                           dvars, rvars>>
       ELSE AfterFetch(FetchReturn(<<>>, FALSE), Complete(in_flight))

\* scraper_utils.py:167-196: the second arun resolves and fetch_cv_page returns
ExtractPage(result) ==
    /\ m_pc = "extract"
    /\ extract_result' = result
    /\ UNCHANGED check_result
    /\ AfterFetch(fetch_cv_page(result), Complete(in_flight))

\* main.py:150-167: an empty result ends the run with a message; else the
\* job description is loaded ("" for a missing file, None for any other
\* failure) and score_candidates is entered.  The locals of the scrape are gone.
AfterScrape ==
    /\ m_pc = "scraped"
    /\ IF candidates = <<>>
       THEN /\ m_pc' = "stopped"
            /\ UNCHANGED <<job_description, r_pc>>
       ELSE /\ m_pc' = "rank"
            /\ job_description' \in JobDescriptions
            /\ r_pc' = "loop"
    /\ seen_identifiers' = {}
    /\ all_candidates' = <<>>
    /\ page_num' = 0
    /\ page_candidates' = <<>>
    /\ has_more' = FALSE
    /\ check_result' = NoCrawl
    /\ extract_result' = NoCrawl
    /\ UNCHANGED <<m_mode, files, in_flight, vvars, d_candidates, unique_candidates,
                   seen_before, d_status, d_repeat, first_arrived, candidates,
                   scored_candidates, r_i, classification, jd_match, c_outcome,
                   m_outcome, classify_calls, match_calls>>

\* main.py:174: the display shows the first five
DisplayTop == 5

\* main.py:175-181: .get on personal_info, and the formats {confidence:.2f}
\* and {score:.1f}, which raise TypeError on None
DisplayRaises ==
    \E p \in DOMAIN scored_candidates :
        /\ p <= DisplayTop
        /\ LET c == candidates[scored_candidates[p]] IN
           \/ c.personal_info.k = "null"
           \/ GetNumOr0(c.ai_confidence_score).k = "null"
           \/ GetNumOr0(c.ai_jd_match_score).k = "null"

\* main.py:170-183
Display ==
    /\ m_pc = "rank"
    /\ r_pc = "returned"
    /\ m_pc' = (IF DisplayRaises THEN "raised" ELSE "save_csv")
    /\ UNCHANGED <<m_mode, page_num, page_candidates, has_more, check_result,
                   extract_result, files, in_flight, vvars, dvars, rvars>>

\* main.py:187 and data_utils.py:98-124
SaveCsv ==
    /\ m_pc = "save_csv"
    /\ IF ~WritesFile(scored_candidates)
       THEN m_pc' = "save_json" /\ UNCHANGED files
       ELSE IF \E p \in DOMAIN scored_candidates :
                   FlattenRaises(candidates[scored_candidates[p]])
       THEN m_pc' = "raised" /\ UNCHANGED files
       ELSE m_pc' = "save_json" /\ files' = files \cup {OUTPUT_CSV_FILE}
    /\ UNCHANGED <<m_mode, page_num, page_candidates, has_more, check_result,
                   extract_result, in_flight, vvars, dvars, rvars>>

\* main.py:188 and data_utils.py:127-142
SaveJson ==
    /\ m_pc = "save_json"
    /\ m_pc' = "done"
    /\ files' = (IF WritesFile(scored_candidates) THEN files \cup {OUTPUT_JSON_FILE}
                 ELSE files)
    /\ UNCHANGED <<m_mode, page_num, page_candidates, has_more, check_result,
                   extract_result, in_flight, vvars, dvars, rvars>>

\* a run of main with any command line
InitRun ==
    /\ vInit
    /\ dInit
    /\ rInit
    /\ in_flight = 0
    /\ m_mode \in {"default", "url", "usage"}
    /\ m_pc = "start"
    /\ page_num = 0
    /\ page_candidates = <<>>
    /\ has_more = FALSE
    /\ check_result = NoCrawl
    /\ extract_result = NoCrawl
    /\ files = {}

WriterInputs == SeqsUpTo({R_ok, R_nullskills}, 1)

\* the two writers called on a list of their own, as main.py:187-188 calls them
InitWriters ==
    /\ vInit
    /\ dInit
    /\ candidates \in WriterInputs
    /\ scored_candidates = [j \in DOMAIN candidates |-> j]
    /\ job_description = TxtNull
    /\ r_i = 1
    /\ r_pc = "idle"
    /\ classification = NoResult
    /\ jd_match = NoMatch
    /\ c_outcome = "none"
    /\ m_outcome = "none"
    /\ classify_calls = 0
    /\ match_calls = 0
    /\ in_flight = 0
    /\ m_mode = "writers"
    /\ m_pc = "save_csv"
    /\ page_num = 0
    /\ page_candidates = <<>>
    /\ has_more = FALSE
    /\ check_result = NoCrawl
    /\ extract_result = NoCrawl
    /\ files = {}

InitMain == InitRun \/ InitWriters

NextMain ==
    \/ Start
    \/ \E result \in CheckResults : CheckPage(result)
    \/ \E result \in ExtractResults : ExtractPage(result)
    \/ AfterScrape
    \/ IssueClassify
    \/ \E outcome \in ClassifyOutcomes : Classify(outcome)
    \/ \E outcome \in MatchOutcomes : Match(outcome)
    \/ SortAndReturn
    \/ Display
    \/ SaveCsv
    \/ SaveJson

SpecMain == InitMain /\ [][NextMain]_vars

\* the scrape alone; every arun it awaits resolves
NextScrape ==
    \/ Start
    \/ \E result \in CheckResults : CheckPage(result)
    \/ \E result \in ExtractResults : ExtractPage(result)

SpecScrape == InitRun /\ [][NextScrape]_vars /\ WF_vars(NextScrape)

(***************************************************************************)
(* Claims about deduplicate_candidates                                     *)
(***************************************************************************)
Range(s) == {s[j] : j \in DOMAIN s}

\* C1: a record with no identifier (no non-empty email, no non-empty full
\* name) is always included in the list dedup returns, and the call leaves
\* the seen set without any entry for it.
C1_NoIdentifierAlwaysIncluded ==
    d_status = "returned" =>
        /\ \A j \in DOMAIN d_candidates :
              ~HasKey(d_candidates[j]) => d_candidates[j] \in Range(unique_candidates)
        /\ <<>> \notin seen_identifiers

\* C2: across the calls of a session that share one seen set, starting
\* empty, the concatenation of the returned lists holds no two records with
\* the same dedup key, every kept record is the first one that arrived with
\* its key, and a call returns no record whose key was already in seen.
C2_CrossPageDedup ==
    /\ \A p, q \in DOMAIN all_candidates :
          (p < q /\ HasKey(all_candidates[p]) /\ HasKey(all_candidates[q]))
              => DedupKey(all_candidates[p]) # DedupKey(all_candidates[q])
    /\ \A p \in DOMAIN all_candidates :
          HasKey(all_candidates[p]) =>
              [key |-> DedupKey(all_candidates[p]), rec |-> all_candidates[p]]
                  \in first_arrived
    /\ d_status = "returned" =>
          \A u \in Range(unique_candidates) : DedupKey(u) \notin seen_before

\* a second page brought the other spelling of an email already kept, and
\* it was dropped while a new record of the same page was kept
C2_Witness ==
    /\ d_status = "returned"
    /\ seen_before # {}
    /\ D_A \in Range(d_candidates)
    /\ D_A \notin Range(all_candidates)
    /\ D_a \in Range(all_candidates)
    /\ Len(unique_candidates) = 1

\* C10: dedup called again on the same input with the seen set the first
\* call left returns the empty list and does not change the seen set.
C10_DedupIdempotent ==
    d_repeat =>
        /\ d_status = "returned"
        /\ unique_candidates = <<>>
        /\ seen_identifiers = seen_before

\* the repeated input held two records with different identifiers
C10_Witness ==
    /\ d_repeat
    /\ Len(d_candidates) = 2
    /\ HasKey(d_candidates[1]) /\ HasKey(d_candidates[2])
    /\ DedupKey(d_candidates[1]) # DedupKey(d_candidates[2])
    /\ unique_candidates = <<>>

\* a is a subsequence of b: b with some elements left out, order kept
RECURSIVE IsSubseq(_, _)
IsSubseq(a, b) ==
    IF a = <<>> THEN TRUE
    ELSE IF b = <<>> THEN FALSE
    ELSE IF Head(a) = Head(b) THEN IsSubseq(Tail(a), Tail(b))
    ELSE IsSubseq(a, Tail(b))

\* C11: the list dedup returns is a subsequence of its input: only input
\* records, none more often than in the input, in the input's order.
C11_DedupOrderPreserved ==
    d_status = "returned" => IsSubseq(unique_candidates, d_candidates)

\* a call kept two different records of a two-record input
C11_Witness ==
    /\ d_status = "returned"
    /\ Len(d_candidates) = 2
    /\ Len(unique_candidates) = 2
    /\ unique_candidates[1] # unique_candidates[2]

(***************************************************************************)
(* Claims about validate_candidate                                         *)
(***************************************************************************)
\* the predicate: every listed field present with a non-empty value, and
\* a non-empty email or a non-empty full name
ClaimValid(c, required) ==
    /\ \A j \in DOMAIN required : HasField(c, required[j]) /\ TruthyField(c, required[j])
    /\ (HasEmail(c) \/ HasName(c))

\* C9: validate is total: for every record and required-field list it
\* returns true exactly when the predicate holds and false otherwise, and
\* never raises.
C9_ValidateTotal ==
    v_result # "none" =>
        v_result = (IF ClaimValid(v_candidate, v_required_fields) THEN "true" ELSE "false")

(***************************************************************************)
(* score_candidates on every batch, with every behaviour of the LLM        *)
(***************************************************************************)
InitRank ==
    /\ vInit
    /\ dInit
    /\ mInit
    /\ candidates \in RankInputs
    /\ job_description \in JobDescriptions
    /\ scored_candidates = <<>>
    /\ r_i = 1
    /\ r_pc = "loop"
    /\ classification = NoResult
    /\ jd_match = NoMatch
    /\ c_outcome = "none"
    /\ m_outcome = "none"
    /\ classify_calls = 0
    /\ match_calls = 0

NextRank ==
    \/ IssueClassify
    \/ \E outcome \in ClassifyOutcomes : Classify(outcome)
    \/ \E outcome \in MatchOutcomes : Match(outcome)
    \/ SortAndReturn

SpecRank == InitRank /\ [][NextRank]_vars

(***************************************************************************)
(* Claims about score_candidates and the adapters                          *)
(***************************************************************************)
\* the ranking key of the record at position p of the ranked list
RankedScore(p) == candidates[scored_candidates[p]].ai_jd_match_score

\* C3: the list rank returns is in descending order of ai_jd_match_score,
\* and records with equal scores keep the relative order of the input.
C3_RankStableDescending ==
    r_pc = "returned" =>
        \A p, q \in DOMAIN scored_candidates :
            p < q =>
                /\ RankedScore(p).k = "num" /\ RankedScore(q).k = "num"
                /\ RankedScore(p).n >= RankedScore(q).n
                /\ RankedScore(p).n = RankedScore(q).n
                      => scored_candidates[p] < scored_candidates[q]

\* the batch [A(50), B(50), C(80)] came back as [C, A, B]
C3_Witness ==
    /\ r_pc = "returned"
    /\ scored_candidates = <<3, 1, 2>>
    /\ candidates[1].ai_jd_match_score = Num(Dec(50, 0))
    /\ candidates[2].ai_jd_match_score = Num(Dec(50, 0))
    /\ candidates[3].ai_jd_match_score = Num(Dec(80, 0))

WellFormedBatch ==
    \A j \in DOMAIN candidates :
        candidates[j].personal_info.k # "null" /\ ~PromptRaises(candidates[j])

\* C4: whatever the LLM does for each record (a result, another status, an
\* exception, text that is not JSON, JSON with fields missing or null),
\* rank processes the whole batch and returns: it never raises.
C4_RankNeverRaises ==
    WellFormedBatch => r_pc # "raised"

\* the score the sort is to use for a record: a missing score counts as 0
ScoreOrZero(p) == IF RankedScore(p).k = "num" THEN RankedScore(p).n ELSE 0

\* C5: once every record is processed, the final sort completes, and a
\* record whose ranking key is missing is ordered as if its score were 0.
C5_MissingKeySortsAsZero ==
    (r_i > Len(candidates) /\ r_pc # "loop") =>
        /\ r_pc = "returned"
        /\ \A p, q \in DOMAIN scored_candidates :
              p < q => ScoreOrZero(p) >= ScoreOrZero(q)

JdSupplied == TruthyTxt(job_description)

\* C6: a record rank has processed always carries a score: the matcher's
\* match_score when a job description is supplied, else confidence * 100,
\* and then the matcher is never invoked.
C6_RankingKeyAlwaysSet ==
    r_pc \in {"loop", "await_classify", "match", "returned"} =>
        \A p \in DOMAIN scored_candidates :
            LET c == candidates[scored_candidates[p]] IN
            /\ c.ai_jd_match_score.k = "num"
            /\ (JdSupplied /\ scored_candidates[p] = r_i - 1)
                  => c.ai_jd_match_score = GetNum(jd_match.match_score)
            /\ ~JdSupplied =>
                  /\ match_calls = 0
                  /\ c.ai_confidence_score.k = "num"
                        => c.ai_jd_match_score.n = c.ai_confidence_score.n * 100

FailedCall == {"status", "exception", "malformed"}

\* C7: when the LLM call of classify fails (status other than 200, text
\* that is not JSON, or an exception), classify returns the fallback: role
\* "Other", confidence 0.0, seniority "Unknown", no key skills, and a
\* non-empty reasoning text.
C7_ClassifyFallback ==
    c_outcome \in FailedCall =>
        /\ classification.obj
        /\ classification.matched_role = Txt("Other")
        /\ classification.confidence_score = Num(Dec(0, 0))
        /\ classification.seniority_level = Txt("Unknown")
        /\ classification.key_skills = ListOf(<<>>)
        /\ TruthyTxt(classification.reasoning)

\* the last classify call got text that was not JSON, and rank still
\* returned a list of two records
C7_Witness ==
    /\ c_outcome = "malformed"
    /\ classification.matched_role = Txt("Other")
    /\ r_pc = "returned"
    /\ Len(scored_candidates) = 2

\* C8: when the LLM call of match fails, match returns the fallback: score
\* 0, no matched and no missing skills, recommendation "no", one concern;
\* rank writes score 0 and recommendation "no" onto the record.
C8_MatchFallback ==
    m_outcome \in FailedCall =>
        /\ jd_match.obj
        /\ jd_match.match_score = Num(Dec(0, 0))
        /\ jd_match.matched_skills = ListOf(<<>>)
        /\ jd_match.missing_skills = ListOf(<<>>)
        /\ jd_match.recommendation = Txt("no")
        /\ jd_match.concerns \in {ListOf(<<"Analysis failed">>), ListOf(<<ErrText>>)}
        /\ r_i - 1 \in DOMAIN candidates
        /\ candidates[r_i - 1].ai_jd_match_score = Num(Dec(0, 0))
        /\ candidates[r_i - 1].ai_recommendation = Txt("no")

\* the match call of the second record failed with a status; the record got
\* score 0 and is ranked below the first, which scored 80
C8_Witness ==
    /\ m_outcome = "status"
    /\ r_pc = "returned"
    /\ scored_candidates = <<1, 2>>
    /\ candidates[1].ai_jd_match_score = Num(Dec(80, 0))
    /\ candidates[2].ai_jd_match_score = Num(Dec(0, 0))
    /\ candidates[2].ai_recommendation = Txt("no")

\* the part of a record that comes from the crawler
Core(c) == <<c.personal_info, c.contact_info, c.skills>>

\* C17: rank neither loses nor invents records: no step changes the length
\* of the caller's list or moves the crawler's data of any position, and
\* the list a step returns names every position of the input exactly once.
C17_RankPermutation ==
    [][/\ Len(candidates') = Len(candidates)
       /\ \A j \in DOMAIN candidates : Core(candidates'[j]) = Core(candidates[j])
       /\ r_pc' = "returned" =>
              /\ Len(scored_candidates') = Len(candidates)
              /\ Range(scored_candidates') = DOMAIN candidates]_vars

C17_Witness ==
    /\ r_pc = "returned"
    /\ Len(candidates) = 3
    /\ scored_candidates = <<2, 3, 1>>
    /\ c_outcome \in FailedCall

\* C18: one rank call makes exactly one classification request per record
\* and, exactly when a non-empty job description is supplied, one match
\* request per record, whatever the requests answer; the AI fields of the
\* record processed last are the ones of that attempt, whatever the record
\* held before.
C18_SinglePassNoRetry ==
    /\ r_pc \in {"loop", "returned"} =>
          /\ classify_calls = r_i - 1
          /\ match_calls = (IF JdSupplied THEN r_i - 1 ELSE 0)
    /\ r_pc = "await_classify" =>
          /\ classify_calls = r_i
          /\ match_calls = (IF JdSupplied THEN r_i - 1 ELSE 0)
    /\ r_pc = "match" => (classify_calls = r_i /\ match_calls = r_i /\ JdSupplied)
    /\ r_pc = "raised" => (classify_calls <= r_i /\ match_calls <= classify_calls)
    /\ (r_pc \in {"loop", "returned"} /\ r_i > 1) =>
          LET c == candidates[r_i - 1] IN
          /\ c.ai_matched_role = GetTxt(classification.matched_role)
          /\ c.ai_confidence_score = GetNum(classification.confidence_score)
          /\ c.ai_seniority = GetTxt(classification.seniority_level)
          /\ c.ai_reasoning = GetTxt(classification.reasoning)
          /\ c.ai_key_skills = GetListOrEmpty(classification.key_skills)
          /\ JdSupplied =>
                /\ c.ai_jd_match_score = GetNum(jd_match.match_score)
                /\ c.ai_recommendation = GetTxt(jd_match.recommendation)
                /\ c.ai_jd_reasoning = GetTxt(jd_match.reasoning)

C18_Witness ==
    /\ r_pc = "returned"
    /\ Len(candidates) = 2
    /\ JdSupplied
    /\ c_outcome = "status"
    /\ m_outcome = "exception"
    /\ classify_calls = 2
    /\ match_calls = 2
    /\ candidates[2].ai_matched_role = Txt("Other")
    /\ candidates[2].ai_jd_match_score = Num(Dec(0, 0))

(***************************************************************************)
(* Claims about the run of main                                            *)
(***************************************************************************)
\* C12: in every run mode the list handed to the ranker holds only valid
\* records and no two records with the same dedup identifier.
C12_RankerInputValidUnique ==
    (m_mode \in {"default", "url"} /\ m_pc \in {"scraped", "rank"}) =>
        /\ \A j \in DOMAIN candidates : ClaimValid(candidates[j], REQUIRED_CV_FIELDS)
        /\ \A j, k \in DOMAIN candidates :
              (j < k /\ HasKey(candidates[j]) /\ HasKey(candidates[k]))
                  => DedupKey(candidates[j]) # DedupKey(candidates[k])

\* a fetch_cv_page call has returned and its locals are still in place
FetchReturned ==
    \/ m_pc \in {"scraped", "raised"}
    \/ m_pc = "check" /\ page_num > 1

MarkerIn(result) ==
    /\ result.cleaned_html.k = "str"
    /\ \E indicator \in no_results_indicators : InStr(indicator, result.cleaned_html.t)

ScrapeEnded == m_pc \in {"scraped", "stopped", "raised"}

IsPrefix(a, b) == Len(a) <= Len(b) /\ SubSeq(b, 1, Len(a)) = a

\* C14: the paginated scrape ends; it never fetches more than max_pages
\* pages; page k+1 is fetched only after page k returned has_more and at
\* least one record; what earlier pages accumulated is never dropped and is
\* what the scrape returns.
C14_PaginationStops ==
    /\ [](/\ page_num <= max_pages
          /\ (m_mode = "default" /\ m_pc \in {"check", "extract"} /\ page_num > 1)
                => (has_more /\ page_candidates # <<>>)
          /\ (m_mode = "default" /\ m_pc = "scraped")
                => /\ candidates = all_candidates
                   /\ (~has_more \/ page_candidates = <<>>) \/ page_num = max_pages)
    /\ [][IsPrefix(all_candidates, all_candidates')]_vars
    /\ <>ScrapeEnded

C14_Witness ==
    /\ m_mode = "default"
    /\ m_pc = "scraped"
    /\ page_num = 2
    /\ Len(candidates) = 2
    /\ check_result.success
    /\ MarkerIn(check_result)

\* C15: at most one collaborator call is outstanding; one is outstanding
\* exactly while a fetch or an LLM request is awaited; and while a request
\* for record r_i is awaited every earlier record has been finished.
C15_OneCallOutstanding ==
    /\ in_flight \in {0, 1}
    /\ in_flight = 1 <=>
          (m_pc \in {"check", "extract"} \/ r_pc \in {"await_classify", "match"})
    /\ ~(m_pc \in {"check", "extract"} /\ r_pc \in {"await_classify", "match"})
    /\ r_pc \in {"await_classify", "match"} =>
          /\ Len(scored_candidates) = r_i - 1
          /\ classify_calls = r_i

C15_Witness ==
    /\ m_mode = "default"
    /\ m_pc = "rank"
    /\ r_pc = "match"
    /\ r_i = 2
    /\ in_flight = 1

\* C16: a run that scraped nothing stops before any LLM request and writes
\* no file; a writer given an empty list writes nothing; in a run of main a
\* file exists only after rank has returned a non-empty list.
C16_EmptyResultNoOutput ==
    /\ m_pc = "stopped" =>
          (files = {} /\ classify_calls = 0 /\ match_calls = 0 /\ r_pc = "idle")
    /\ (m_pc \in {"save_json", "done"} /\ scored_candidates = <<>>) => files = {}
    /\ files # {} => scored_candidates # <<>>
    /\ (files # {} /\ m_mode # "writers") => r_pc = "returned"

C16_Witness ==
    /\ m_pc = "stopped"
    /\ m_mode = "default"
    /\ candidates = <<>>
    /\ files = {}

====
